---- MODULE Spec2Model ----
(***************************************************************************)
(* ContentEngine job queue: the control-plane operations of                *)
(* ContentEngineMCP (mcp_server.py) and the worker JobWorker               *)
(* (job_worker.py) over the posts and job_queue tables (lib/database.py).  *)
(***************************************************************************)
EXTENDS Integers, Sequences, FiniteSets, Bags, TLC

\* ------------------------------------------------------------------ bounds
MaxPosts == 1      \* rows of the posts table
MaxJobs == 2       \* rows of the job_queue table
MaxWhen == 2       \* Schedule is called with scheduled_at in 1..MaxWhen
MaxTries == 6      \* max_attempts of a job_queue row set by hand, in 1..MaxTries

\* ---------------------------------------------------------- value domains
None == <<>>                       \* SQL NULL / Python None of a DateTime
Some(t) == <<t>>                   \* a DateTime value, in seconds
NoStr == "None"                    \* SQL NULL / Python None of a string

Contents == {"a", "b"}
IngestPlatforms == {"linkedin", "twitter"}
SourceFiles == {"f.md"}
Priorities == {0, 1}

\* lib/database.py enums
PostStatus == {"draft", "approved", "scheduled", "posted", "failed", "rejected"}
Platform == {"linkedin", "twitter", "blog"}
JobStatus == {"pending", "processing", "completed", "failed", "cancelled"}
JobType == {"post_to_linkedin", "post_to_twitter", "post_to_blog"}

\* JobQueue.max_attempts column default
DefaultMaxAttempts == 3
\* priority of the job fire() creates
FirePriority == 100
\* JobWorker.RETRY_BACKOFF
RETRY_BACKOFF == <<60, 300, 900, 3600>>

\* hashlib.sha256(content.encode()).hexdigest()[:16]
ContentHash(c) ==
    CASE c = "a" -> "ca978112ca1bbdca"
      [] c = "b" -> "3e23e8160039594a"

\* job_type_map of schedule() and fire()
job_type_map(platform) ==
    CASE platform = "linkedin" -> "post_to_linkedin"
      [] platform = "twitter" -> "post_to_twitter"
      [] platform = "blog" -> "post_to_blog"

Min(a, b) == IF a < b THEN a ELSE b

VARIABLES
    posts,      \* posts table: sequence of rows, id = index
    jobs,       \* job_queue table: sequence of rows, id = index
    now,        \* datetime.utcnow(), in seconds
    request,    \* last tool call: tool and params
    response,   \* what the last call returned or raised
    wpc,        \* position of the worker inside process_queue
    wq,         \* rest of the due snapshot the worker iterates over
    wcur,       \* id of the job marked Processing, 0 when none
    wnow,       \* `now` taken at the start of process_queue
    dry_run,    \* JobWorker.dry_run of the running cycle
    processed,  \* process_queue's counter of successful jobs
    wlog,       \* ids dispatched by the running cycle, in order
    wsnap,      \* job_queue table as the due query saw it
    pubcalls,   \* bag of job ids: the calls of _post_to_<platform>
    pubok,      \* bag of post ids: the publisher calls that returned an id
    sched       \* concurrent schedule() callers between lookup and insert

vars == <<posts, jobs, now, request, response, wpc, wq, wcur, wnow, dry_run,
          processed, wlog, wsnap, pubcalls, pubok, sched>>
worker == <<wpc, wq, wcur, wnow, dry_run, processed, wlog, wsnap>>
publisher == <<pubcalls, pubok>>

\* two control-plane processes calling schedule() at the same time
Callers == {1, 2}

\* a caller that is not inside schedule()
NoCall == [pc |-> "idle", post_id |-> 0, when |-> None, priority |-> 0,
           existing_job |-> 0, action |-> NoStr]

\* ------------------------------------------------------------------- rows
\* Post(...) row as inserted by ingest(); other columns take their defaults
NewPost(content, platform, status) ==
    [content |-> content, platform |-> platform, status |-> status,
     scheduled_at |-> None, posted_at |-> None, external_id |-> NoStr,
     error_message |-> NoStr]

\* the row inserted with one attempt already counted
NewJob_OneAttempt(job_type, post_id, scheduled_at, priority, source_file, source_hash) ==
    [job_type |-> job_type, status |-> "pending", post_id |-> post_id,
     scheduled_at |-> scheduled_at, priority |-> priority,
     attempts |-> 1, max_attempts |-> DefaultMaxAttempts,
     last_error |-> NoStr, next_retry_at |-> None,
     started_at |-> None, completed_at |-> None,
     source_file |-> source_file, source_hash |-> source_hash,
     updated_at |-> now]

\* JobQueue(...) row as inserted by schedule() and fire()
NewJob(job_type, post_id, scheduled_at, priority, source_file, source_hash) ==
    [job_type |-> job_type, status |-> "pending", post_id |-> post_id,
     scheduled_at |-> scheduled_at, priority |-> priority,
     attempts |-> 0, max_attempts |-> DefaultMaxAttempts,
     last_error |-> NoStr, next_retry_at |-> None,
     started_at |-> None, completed_at |-> None,
     source_file |-> source_file, source_hash |-> source_hash,
     updated_at |-> now]

PostIds == 1..Len(posts)
JobIds == 1..Len(jobs)

NoRequest ==
    [tool |-> "none", post_id |-> 0, job_id |-> 0, when |-> None,
     priority |-> 0, source_file |-> NoStr, content |-> NoStr,
     platform |-> NoStr]

Req(tool, post_id, job_id, when, priority, source_file, content, platform) ==
    [tool |-> tool, post_id |-> post_id, job_id |-> job_id, when |-> when,
     priority |-> priority, source_file |-> source_file, content |-> content,
     platform |-> platform]

\* handle_request(): {"success": True, "result": {...}}
Ok(action, post_id, job_id) ==
    [success |-> TRUE, action |-> action, error |-> NoStr,
     post_id |-> post_id, job_id |-> job_id]

\* handle_request(): {"success": False, "error": str(e)}
Err(msg) ==
    [success |-> FALSE, action |-> NoStr, error |-> msg,
     post_id |-> 0, job_id |-> 0]

\* ------------------------------------------------------------------- init
\* posts the upstream pipeline left behind (cli draft / cli reject)
UpstreamPosts ==
    {<<>>} \cup {<<[content |-> "a", platform |-> "linkedin", status |-> st,
                   scheduled_at |-> None, posted_at |-> None,
                   external_id |-> NoStr, error_message |-> NoStr]>> : st \in {"draft", "rejected"}}

Init ==
    /\ posts \in UpstreamPosts
    /\ jobs = <<>>
    /\ now = 0
    /\ request = NoRequest
    /\ response = Ok("none", 0, 0)
    /\ wpc = "idle"
    /\ wq = <<>>
    /\ wcur = 0
    /\ wnow = 0
    /\ dry_run = FALSE
    /\ processed = 0
    /\ wlog = <<>>
    /\ wsnap = <<>>
    /\ pubcalls = EmptyBag
    /\ pubok = EmptyBag
    /\ sched = [c \in Callers |-> NoCall]

\* ------------------------------------------------------- store queries
IsActive(j) == jobs[j].status \in {"pending", "processing"}

\* the lookup by source file without its status filter
FirstActiveBySource_AnyStatus(f) ==
    LET S == {j \in JobIds : jobs[j].source_file = f}
    IN IF S = {} THEN 0 ELSE CHOOSE j \in S : \A k \in S : j <= k

\* db.query(JobQueue).filter(source_file == f, status in [PENDING, PROCESSING]).first()
\* rows come back in rowid order: the first match is the lowest id; 0 = None
FirstActiveBySource(f) ==
    LET S == {j \in JobIds : jobs[j].source_file = f /\ IsActive(j)}
    IN IF S = {} THEN 0 ELSE CHOOSE j \in S : \A k \in S : j <= k

\* db.query(JobQueue).filter(post_id == p, status in [PENDING, PROCESSING]).first()
FirstActiveByPost(p) ==
    LET S == {j \in JobIds : jobs[j].post_id = p /\ IsActive(j)}
    IN IF S = {} THEN 0 ELSE CHOOSE j \in S : \A k \in S : j <= k

\* ----------------------------------------------------------------- ingest
\* the new post entering the pipeline as a draft
IngestStatus_Draft == "draft"

\* Post(..., status=PostStatus.APPROVED)
IngestStatus == "approved"

Ingest(content, platform, source_file) ==
    LET existing == IF source_file = NoStr THEN 0
                    ELSE FirstActiveBySource(source_file)
    IN
    /\ request' = Req("ingest", 0, 0, None, 0, source_file, content, platform)
    /\ IF existing # 0
       THEN LET p == jobs[existing].post_id IN
            /\ posts' = [posts EXCEPT ![p].content = content]
            /\ jobs' = [jobs EXCEPT ![existing].source_hash = ContentHash(content),
                                    ![existing].updated_at = now]
            /\ response' = Ok("updated", p, existing)
       ELSE /\ Len(posts) < MaxPosts
            /\ posts' = Append(posts, NewPost(content, platform, IngestStatus))
            /\ jobs' = jobs
            /\ response' = Ok("created", Len(posts) + 1, 0)
    /\ UNCHANGED <<now, worker, publisher, sched>>

\* --------------------------------------------------------------- schedule
\* the status check letting a Scheduled post through
CanSchedule_AlsoScheduled(post) ==
    post.status \in {"approved", "draft", "scheduled"}

\* `post.status not in [APPROVED, DRAFT]` raises
CanSchedule(post) == post.status \in {"approved", "draft"}

\* `schedule_time < datetime.utcnow()` raises
InPast(when) == when < now

Schedule(post_id, when, priority, source_file) ==
    /\ request' = Req("schedule", post_id, 0, Some(when), priority,
                      source_file, NoStr, NoStr)
    /\ IF post_id \notin PostIds
       THEN /\ response' = Err("Post " \o ToString(post_id) \o " not found")
            /\ UNCHANGED <<posts, jobs>>
       ELSE IF ~CanSchedule(posts[post_id])
       THEN /\ response' = Err("Post must be APPROVED or DRAFT, got "
                               \o posts[post_id].status)
            /\ UNCHANGED <<posts, jobs>>
       ELSE IF InPast(when)
       THEN /\ response' = Err("Scheduled time must be in the future")
            /\ UNCHANGED <<posts, jobs>>
       ELSE LET post == posts[post_id]
                job_type == job_type_map(post.platform)
                content_hash == ContentHash(post.content)
                existing_job == FirstActiveByPost(post_id)
            IN IF existing_job # 0
               THEN /\ jobs' = [jobs EXCEPT ![existing_job] =
                          [@ EXCEPT !.scheduled_at = Some(when),
                                    !.priority = priority,
                                    !.source_hash = content_hash,
                                    !.source_file = IF source_file # NoStr
                                                    THEN source_file ELSE @,
                                    !.updated_at = now]]
                    /\ posts' = posts
                    /\ response' = Ok("rescheduled", post_id, existing_job)
               ELSE /\ Len(jobs) < MaxJobs
                    /\ jobs' = Append(jobs, NewJob(job_type, post_id, Some(when),
                                          priority, source_file, content_hash))
                    /\ posts' = [posts EXCEPT ![post_id] =
                          [@ EXCEPT !.status = "scheduled",
                                    !.scheduled_at = Some(when)]]
                    /\ response' = Ok("scheduled", post_id, Len(jobs) + 1)
    /\ UNCHANGED <<now, worker, publisher, sched>>

\* ------------------------------------------------------------------- fire
\* fire() stamping the job with the current time instead of NULL
FireJob_ScheduledNow(post_id) ==
    NewJob(job_type_map(posts[post_id].platform), post_id, Some(now),
           FirePriority, NoStr, NoStr)

\* the JobQueue row fire() adds: no scheduled time, high priority
FireJob(post_id) ==
    NewJob(job_type_map(posts[post_id].platform), post_id, None, FirePriority,
           NoStr, NoStr)

Fire(post_id) ==
    /\ request' = Req("fire", post_id, 0, None, 0, NoStr, NoStr, NoStr)
    /\ IF post_id \notin PostIds
       THEN /\ response' = Err("Post " \o ToString(post_id) \o " not found")
            /\ jobs' = jobs
       ELSE /\ Len(jobs) < MaxJobs
            /\ jobs' = Append(jobs, FireJob(post_id))
            /\ response' = Ok("queued_immediate", post_id, Len(jobs) + 1)
    /\ UNCHANGED <<posts, now, worker, publisher, sched>>

\* ----------------------------------------------------------------- cancel
\* cancel() without its status check
CanCancel_AnyStatus(job) == TRUE

\* the status check letting a Processing job through
CanCancel_AlsoProcessing(job) == job.status \in {"pending", "processing"}

\* `job.status not in [JobStatus.PENDING]` raises
CanCancel(job) == job.status = "pending"

\* the revert leaving the post's scheduled time in place
RevertedPost_KeepsSchedule(post) == [post EXCEPT !.status = "approved"]

\* "Revert post status": post.status = APPROVED; post.scheduled_at = None
RevertedPost(post) ==
    [post EXCEPT !.status = "approved", !.scheduled_at = None]

\* job_id = 0 / post_id = 0 stand for an argument left at None
Cancel(job_id, post_id) ==
    /\ request' = Req("cancel", post_id, job_id, None, 0, NoStr, NoStr, NoStr)
    /\ IF job_id # 0
       THEN IF job_id \notin JobIds
            THEN /\ response' = Err("Job " \o ToString(job_id) \o " not found")
                 /\ UNCHANGED <<posts, jobs>>
            ELSE IF ~CanCancel(jobs[job_id])
            THEN /\ response' = Err("Can only cancel PENDING jobs, got "
                                    \o jobs[job_id].status)
                 /\ UNCHANGED <<posts, jobs>>
            ELSE LET p == jobs[job_id].post_id IN
                 /\ jobs' = [jobs EXCEPT ![job_id].status = "cancelled",
                                         ![job_id].updated_at = now]
                 /\ posts' = [posts EXCEPT ![p] = RevertedPost(@)]
                 /\ response' = Ok("cancelled", p, job_id)
       ELSE IF post_id # 0
       THEN LET pending == {j \in JobIds : /\ jobs[j].post_id = post_id
                                           /\ jobs[j].status = "pending"}
            IN IF pending = {}
               THEN /\ response' = Ok("none", 0, 0)
                    /\ UNCHANGED <<posts, jobs>>
               ELSE /\ jobs' = [j \in JobIds |->
                          IF j \in pending
                          THEN [jobs[j] EXCEPT !.status = "cancelled",
                                               !.updated_at = now]
                          ELSE jobs[j]]
                    /\ posts' = IF post_id \in PostIds
                                THEN [posts EXCEPT ![post_id] = RevertedPost(@)]
                                ELSE posts
                    /\ response' = Ok("cancelled", post_id, 0)
       ELSE /\ response' = Err("Must provide either job_id or post_id")
            /\ UNCHANGED <<posts, jobs>>
    /\ UNCHANGED <<now, worker, publisher, sched>>

\* ------------------------------------------------------------------- sync
\* the "action" sync() answers: no active job for the file, same hash, or not
SyncAction(source_file, content) ==
    LET job == FirstActiveBySource(source_file) IN
    IF job = 0 THEN "not_found"
    ELSE IF jobs[job].source_hash = ContentHash(content) THEN "unchanged"
    ELSE "updated"

\* the update that forgets to store the new hash
SyncedJob_KeepsHash(job, new_hash) == [job EXCEPT !.updated_at = now]

\* the update putting the job back at the start of its retries
SyncedJob_Requeued(job, new_hash) ==
    [job EXCEPT !.source_hash = new_hash, !.updated_at = now,
                !.attempts = 0, !.next_retry_at = None]

\* job.source_hash = new_hash; job.updated_at = datetime.utcnow()
SyncedJob(job, new_hash) ==
    [job EXCEPT !.source_hash = new_hash, !.updated_at = now]

Sync(source_file, content) ==
    LET new_hash == ContentHash(content)
        job == FirstActiveBySource(source_file)
        action == SyncAction(source_file, content)
    IN
    /\ request' = Req("sync", 0, 0, None, 0, source_file, content, NoStr)
    /\ IF action = "not_found"
       THEN /\ response' = Ok("not_found", 0, 0)
            /\ UNCHANGED <<posts, jobs>>
       ELSE IF action = "unchanged"
       THEN /\ response' = Ok("unchanged", jobs[job].post_id, job)
            /\ UNCHANGED <<posts, jobs>>
       ELSE LET p == jobs[job].post_id IN
            /\ posts' = [posts EXCEPT ![p].content = content]
            /\ jobs' = [jobs EXCEPT ![job] = SyncedJob(@, new_hash)]
            /\ response' = Ok("updated", p, job)
    /\ UNCHANGED <<now, worker, publisher, sched>>

\* ----------------------------------------------------------- due query
\* the due query without its scheduled_at clause
Due_IgnoringSchedule(job, t) ==
    /\ job.status = "pending"
    /\ (job.next_retry_at = None \/ job.next_retry_at[1] <= t)

\* the due query without its next_retry_at clause
Due_IgnoringRetry(job, t) ==
    /\ job.status = "pending"
    /\ (job.scheduled_at = None \/ job.scheduled_at[1] <= t)

\* filter(status == PENDING, scheduled_at IS NULL | scheduled_at <= now,
\*        next_retry_at IS NULL | next_retry_at <= now)
Due(job, t) ==
    /\ job.status = "pending"
    /\ (job.scheduled_at = None \/ job.scheduled_at[1] <= t)
    /\ (job.next_retry_at = None \/ job.next_retry_at[1] <= t)

\* scheduled_at ASC of SQLite: NULL sorts before every value
TimeAscLeq(a, b) == a = None \/ (b # None /\ a[1] <= b[1])

\* the ordering with scheduled_at descending
OrderLeq_LatestFirst(x, y) ==
    \/ x.priority > y.priority
    \/ x.priority = y.priority /\ TimeAscLeq(y.scheduled_at, x.scheduled_at)

\* order_by(priority.desc(), scheduled_at.asc()): x may come before y
OrderLeq(x, y) ==
    \/ x.priority > y.priority
    \/ x.priority = y.priority /\ TimeAscLeq(x.scheduled_at, y.scheduled_at)

\* the result lists of the due query: rows with equal keys in any order
DueLists(t) ==
    LET D == {j \in JobIds : Due(jobs[j], t)}
    IN {q \in [1..Cardinality(D) -> D] :
          /\ \A a, b \in 1..Cardinality(D) : a # b => q[a] # q[b]
          /\ \A a, b \in 1..Cardinality(D) :
                a < b => OrderLeq(jobs[q[a]], jobs[q[b]])}

\* ---------------------------------------------------------- process_queue
\* now = utcnow(); jobs = query.all(); `if not jobs: return 0`
ProcessQueue(dry) ==
    /\ wpc = "idle"
    /\ \E q \in DueLists(now) :
          /\ wq' = q
          /\ wpc' = IF q = <<>> THEN "done" ELSE "loop"
    /\ wnow' = now
    /\ dry_run' = dry
    /\ processed' = 0
    /\ wlog' = <<>>
    /\ wsnap' = jobs
    /\ UNCHANGED <<posts, jobs, now, request, response, wcur, publisher,
                   sched>>

\* _process_job, up to its first commit
MarkProcessing ==
    /\ wpc = "loop"
    /\ LET job == Head(wq) IN
       /\ jobs' = [jobs EXCEPT ![job].status = "processing",
                               ![job].started_at = Some(now),
                               ![job].attempts = @ + 1,
                               ![job].updated_at = now]
       /\ wcur' = job
       /\ wlog' = Append(wlog, job)
    /\ wpc' = "publish"
    /\ UNCHANGED <<posts, now, request, response, wq, wnow, dry_run,
                   processed, wsnap, publisher, sched>>

\* what post_to_linkedin returns (the X-RestLi-Id header)
ExternalIds == {"urn:li:share:1"}

\* what _post_to_linkedin raises when the oauth_tokens table has no row
LinkedInErrors == {"No LinkedIn OAuth token found. Run OAuth flow first."}

\* the dispatch with a working Twitter publisher
PublishOutcomes_TwitterWorks(job_id) ==
    IF jobs[job_id].job_type = "post_to_blog"
    THEN {[ok |-> FALSE, value |-> "Blog posting not yet implemented",
           exc |-> "NotImplementedError", called |-> TRUE]}
    ELSE {[ok |-> TRUE, value |-> "1", exc |-> NoStr, called |-> TRUE]}

\* the outcomes of the dispatch on job_type: the id returned, or the message
\* and class of the exception raised; `called` tells whether one of
\* _post_to_linkedin, _post_to_twitter, _post_to_blog was called
PublishOutcomes(job_id) ==
    IF dry_run
    THEN {[ok |-> TRUE, value |-> "dry-run-" \o ToString(job_id),
           exc |-> NoStr, called |-> FALSE]}
    ELSE CASE jobs[job_id].job_type = "post_to_linkedin" ->
                {[ok |-> TRUE, value |-> e, exc |-> NoStr, called |-> TRUE] :
                    e \in ExternalIds}
                \cup {[ok |-> FALSE, value |-> e, exc |-> "ValueError",
                       called |-> TRUE] : e \in LinkedInErrors}
           [] jobs[job_id].job_type = "post_to_twitter" ->
                {[ok |-> FALSE, value |-> "Twitter posting not yet implemented",
                  exc |-> "NotImplementedError", called |-> TRUE]}
           [] jobs[job_id].job_type = "post_to_blog" ->
                {[ok |-> FALSE, value |-> "Blog posting not yet implemented",
                  exc |-> "NotImplementedError", called |-> TRUE]}

\* a handler that names ValueError only
Caught_ValueErrorOnly(exc) == exc = "ValueError"

\* `except Exception as e` of process_queue: ValueError, NotImplementedError
\* and LinkedInAPIError all derive from Exception
Caught(exc) == exc \in {"ValueError", "NotImplementedError", "LinkedInAPIError"}

\* the clamp stopping one entry short of the end of the table
backoff_index_ClampsEarly(attempts) ==
    Min(attempts - 1, Len(RETRY_BACKOFF) - 2) + 1

\* the index taken from attempts instead of attempts - 1
backoff_index_FromAttempts(attempts) ==
    Min(attempts, Len(RETRY_BACKOFF) - 1) + 1

\* min(job.attempts - 1, len(RETRY_BACKOFF) - 1), as a 1-based index
backoff_index(attempts) == Min(attempts - 1, Len(RETRY_BACKOFF) - 1) + 1

\* the test giving the job one attempt more than max_attempts
RetriesExhausted_Strict(job) == job.attempts > job.max_attempts

\* `if job.attempts >= job.max_attempts`
RetriesExhausted(job) == job.attempts >= job.max_attempts

\* _handle_failure: the job row afterwards
FailedJob(job, error) ==
    IF RetriesExhausted(job)
    THEN [job EXCEPT !.last_error = error, !.status = "failed",
                     !.updated_at = now]
    ELSE [job EXCEPT !.last_error = error,
                     !.next_retry_at =
                         Some(now + RETRY_BACKOFF[backoff_index(job.attempts)]),
                     !.status = "pending",
                     !.updated_at = now]

\* _handle_failure: the post row afterwards
FailedPost(job, post, error) ==
    IF RetriesExhausted(job)
    THEN [post EXCEPT !.status = "failed",
                      !.error_message =
                          "Max retries exceeded. Last error: " \o error]
    ELSE post

\* _process_job after the first commit, with the except branch of
\* process_queue (_handle_failure) when the dispatch raises; an exception the
\* handler does not catch ends process_queue there
Publish ==
    /\ wpc = "publish"
    /\ \E out \in PublishOutcomes(wcur) :
          LET job == jobs[wcur]
              p == job.post_id
          IN
          /\ pubcalls' = IF out.called THEN pubcalls (+) SetToBag({wcur})
                                       ELSE pubcalls
          /\ pubok' = IF out.called /\ out.ok THEN pubok (+) SetToBag({p})
                                              ELSE pubok
          /\ IF out.ok
             THEN /\ jobs' = [jobs EXCEPT ![wcur].status = "completed",
                                          ![wcur].completed_at = Some(now),
                                          ![wcur].last_error = NoStr,
                                          ![wcur].updated_at = now]
                  /\ posts' = [posts EXCEPT ![p] =
                        [@ EXCEPT !.status = "posted",
                                  !.posted_at = Some(now),
                                  !.external_id = out.value]]
                  /\ processed' = processed + 1
                  /\ wq' = Tail(wq)
                  /\ wcur' = 0
                  /\ wpc' = IF Tail(wq) = <<>> THEN "done" ELSE "loop"
             ELSE IF Caught(out.exc)
             THEN /\ jobs' = [jobs EXCEPT ![wcur] = FailedJob(job, out.value)]
                  /\ posts' = [posts EXCEPT ![p] =
                        FailedPost(job, @, out.value)]
                  /\ processed' = processed
                  /\ wq' = Tail(wq)
                  /\ wcur' = 0
                  /\ wpc' = IF Tail(wq) = <<>> THEN "done" ELSE "loop"
             ELSE /\ wpc' = "crashed"
                  /\ UNCHANGED <<jobs, posts, processed, wq, wcur>>
    /\ UNCHANGED <<now, request, response, wnow, dry_run, wlog, wsnap, sched>>

\* db.close(); return processed
Return ==
    /\ wpc = "done"
    /\ wpc' = "idle"
    /\ dry_run' = FALSE
    /\ processed' = 0
    /\ wnow' = 0
    /\ wlog' = <<>>
    /\ wsnap' = <<>>
    /\ UNCHANGED <<posts, jobs, now, request, response, wq, wcur, publisher,
                   sched>>

\* ------------------------------------------------------------------ clock
Quiet == wpc = "idle" /\ request = NoRequest

\* scheduled_at and next_retry_at values of the pending jobs
Timestamps ==
    LET P == {j \in JobIds : jobs[j].status = "pending"} IN
    {jobs[j].scheduled_at[1] : j \in {k \in P : jobs[k].scheduled_at # None}}
    \cup
    {jobs[j].next_retry_at[1] : j \in {k \in P : jobs[k].next_retry_at # None}}

\* time passes (time.sleep(poll_interval) of run_continuous) until a
\* scheduled_at or next_retry_at of a pending job has come
Sleep ==
    /\ Quiet
    /\ \E t \in Timestamps : t > now /\ now' = t
    /\ UNCHANGED <<posts, jobs, request, response, worker, publisher, sched>>

\* the caller has read the response of handle_request
Ack ==
    /\ request # NoRequest
    /\ request' = NoRequest
    /\ response' = Ok("none", 0, 0)
    /\ UNCHANGED <<posts, jobs, now, worker, publisher, sched>>

\* every call runs to completion: a tool is called only between worker cycles
\* and after the previous response was read
CallIngest ==
    /\ Quiet
    /\ \E c \in Contents, pl \in IngestPlatforms, sf \in SourceFiles \cup {NoStr} :
          Ingest(c, pl, sf)

CallSchedule ==
    /\ Quiet
    /\ \E p \in 1..MaxPosts, w \in 1..MaxWhen, pr \in Priorities,
          sf \in SourceFiles \cup {NoStr} : Schedule(p, w, pr, sf)

CallFire ==
    /\ Quiet
    /\ \E p \in 1..MaxPosts : Fire(p)

CallCancel ==
    /\ Quiet
    /\ \E j \in 0..MaxJobs, p \in 0..MaxPosts : (j = 0 \/ p = 0) /\ Cancel(j, p)

CallSync ==
    /\ Quiet
    /\ \E sf \in SourceFiles, c \in Contents : Sync(sf, c)

\* `content-engine worker` without --dry-run, started between two calls
RunWorker ==
    /\ Quiet
    /\ ProcessQueue(FALSE)

Next ==
    \/ CallIngest
    \/ CallSchedule
    \/ CallFire
    \/ CallCancel
    \/ CallSync
    \/ Ack
    \/ RunWorker
    \/ MarkProcessing
    \/ Publish
    \/ Return
    \/ Sleep

Spec == Init /\ [][Next]_vars

\* ------------------------------------------------- two posts in the queue
\* the store after two ingest("a", "linkedin") calls
InitPair ==
    /\ posts = <<NewPost("a", "linkedin", "approved"),
                 NewPost("a", "linkedin", "approved")>>
    /\ jobs = <<>>
    /\ now = 0
    /\ request = NoRequest
    /\ response = Ok("none", 0, 0)
    /\ wpc = "idle"
    /\ wq = <<>>
    /\ wcur = 0
    /\ wnow = 0
    /\ dry_run = FALSE
    /\ processed = 0
    /\ wlog = <<>>
    /\ wsnap = <<>>
    /\ pubcalls = EmptyBag
    /\ pubok = EmptyBag
    /\ sched = [c \in Callers |-> NoCall]

PairSchedule ==
    /\ Quiet
    /\ \E p \in PostIds, w \in 1..MaxWhen, pr \in Priorities :
          Schedule(p, w, pr, NoStr)

PairFire ==
    /\ Quiet
    /\ \E p \in PostIds : Fire(p)

NextPair ==
    \/ PairSchedule
    \/ PairFire
    \/ Ack
    \/ RunWorker
    \/ MarkProcessing
    \/ Publish
    \/ Return
    \/ Sleep

SpecPair == InitPair /\ [][NextPair]_vars

\* --------------------------------------- calls while the worker is running
\* the store after one ingest("a", "linkedin") call
InitSolo ==
    /\ posts = <<NewPost("a", "linkedin", "approved")>>
    /\ jobs = <<>>
    /\ now = 0
    /\ request = NoRequest
    /\ response = Ok("none", 0, 0)
    /\ wpc = "idle"
    /\ wq = <<>>
    /\ wcur = 0
    /\ wnow = 0
    /\ dry_run = FALSE
    /\ processed = 0
    /\ wlog = <<>>
    /\ wsnap = <<>>
    /\ pubcalls = EmptyBag
    /\ pubok = EmptyBag
    /\ sched = [c \in Callers |-> NoCall]

\* the CLI and the MCP server are processes of their own: a call may commit
\* between two commits of a process_queue cycle
AnytimeSchedule ==
    /\ request = NoRequest
    /\ \E p \in PostIds, w \in 1..MaxWhen, pr \in Priorities :
          Schedule(p, w, pr, NoStr)

AnytimeFire ==
    /\ request = NoRequest
    /\ \E p \in PostIds : Fire(p)

AnytimeCancel ==
    /\ request = NoRequest
    /\ \E j \in 0..MaxJobs, p \in 0..Len(posts) : (j = 0 \/ p = 0) /\ Cancel(j, p)

\* `content-engine worker` started at any moment
StartWorker == ProcessQueue(FALSE)

NextAnytime ==
    \/ AnytimeSchedule
    \/ AnytimeFire
    \/ AnytimeCancel
    \/ Ack
    \/ StartWorker
    \/ MarkProcessing
    \/ Publish
    \/ Return
    \/ Sleep

SpecAnytime == InitSolo /\ [][NextAnytime]_vars

\* ------------------------------------------- two posts, with cancellation
PairCancel ==
    /\ Quiet
    /\ \E j \in 0..MaxJobs, p \in 0..Len(posts) : (j = 0 \/ p = 0) /\ Cancel(j, p)

NextPairCancel ==
    \/ PairSchedule
    \/ PairFire
    \/ PairCancel
    \/ Ack
    \/ RunWorker
    \/ MarkProcessing
    \/ Publish
    \/ Return
    \/ Sleep

SpecPairCancel == InitPair /\ [][NextPairCancel]_vars

\* ------------------------------------- a publisher that fails every time
\* the store after ingest("a", "twitter") or ingest("a", "blog"):
\* _post_to_twitter and _post_to_blog always raise
InitRetry ==
    /\ \E pl \in {"twitter", "blog"} :
          posts = <<NewPost("a", pl, "approved")>>
    /\ jobs = <<>>
    /\ now = 0
    /\ request = NoRequest
    /\ response = Ok("none", 0, 0)
    /\ wpc = "idle"
    /\ wq = <<>>
    /\ wcur = 0
    /\ wnow = 0
    /\ dry_run = FALSE
    /\ processed = 0
    /\ wlog = <<>>
    /\ wsnap = <<>>
    /\ pubcalls = EmptyBag
    /\ pubok = EmptyBag
    /\ sched = [c \in Callers |-> NoCall]

RetrySchedule ==
    /\ Quiet
    /\ \E p \in PostIds, w \in 1..MaxWhen, pr \in Priorities :
          Schedule(p, w, pr, NoStr)

RetryFire ==
    /\ Quiet
    /\ \E p \in PostIds : Fire(p)

NextRetry ==
    \/ RetrySchedule
    \/ RetryFire
    \/ Ack
    \/ RunWorker
    \/ MarkProcessing
    \/ Publish
    \/ Return
    \/ Sleep

\* run_continuous: the worker runs process_queue again and again, each cycle
\* runs to its end, and time.sleep lets time pass between two cycles
SpecRetry ==
    /\ InitRetry
    /\ [][NextRetry]_vars
    /\ WF_vars(Ack)
    /\ SF_vars(RunWorker)
    /\ WF_vars(MarkProcessing)
    /\ WF_vars(Publish)
    /\ WF_vars(Return)
    /\ SF_vars(Sleep)

\* ------------------------------------------- rows with their own max_attempts
\* a twitter or blog post with one Pending job whose max_attempts column was
\* set to m: the publisher raises at every attempt
InitBackoff ==
    \E pl \in {"twitter", "blog"}, m \in 1..MaxTries :
        /\ posts = <<[NewPost("a", pl, "scheduled") EXCEPT
                         !.scheduled_at = Some(0)]>>
        /\ jobs = <<[job_type |-> job_type_map(pl), status |-> "pending",
                     post_id |-> 1, scheduled_at |-> Some(0), priority |-> 0,
                     attempts |-> 0, max_attempts |-> m,
                     last_error |-> NoStr, next_retry_at |-> None,
                     started_at |-> None, completed_at |-> None,
                     source_file |-> NoStr,
                     source_hash |-> ContentHash("a"), updated_at |-> 0]>>
        /\ now = 0
        /\ request = NoRequest
        /\ response = Ok("none", 0, 0)
        /\ wpc = "idle"
        /\ wq = <<>>
        /\ wcur = 0
        /\ wnow = 0
        /\ dry_run = FALSE
        /\ processed = 0
        /\ wlog = <<>>
        /\ wsnap = <<>>
        /\ pubcalls = EmptyBag
        /\ pubok = EmptyBag
        /\ sched = [c \in Callers |-> NoCall]

NextBackoff ==
    \/ RunWorker
    \/ MarkProcessing
    \/ Publish
    \/ Return
    \/ Sleep

SpecBackoff == InitBackoff /\ [][NextBackoff]_vars

\* ------------------------------------------------ two schedule() callers
\* schedule() up to the existing_job query: the checks, then the lookup
ScheduleLookup(c, post_id, when, priority) ==
    /\ sched[c].pc \in {"idle", "done"}
    /\ sched' = [sched EXCEPT ![c] =
          IF \/ post_id \notin PostIds
             \/ ~CanSchedule(posts[post_id])
             \/ InPast(when)
          THEN [pc |-> "done", post_id |-> post_id, when |-> Some(when),
                priority |-> priority, existing_job |-> 0, action |-> "error"]
          ELSE [pc |-> "looked", post_id |-> post_id, when |-> Some(when),
                priority |-> priority,
                existing_job |-> FirstActiveByPost(post_id), action |-> NoStr]]
    /\ UNCHANGED <<posts, jobs, now, request, response, worker, publisher>>

\* the branch looking the active job up again at the time of the write
SeenActiveJob_Fresh(c) == FirstActiveByPost(sched[c].post_id)

\* `if existing_job:` tests what the query returned before
SeenActiveJob(c) == sched[c].existing_job

\* schedule() from `if existing_job:` to its commit
ScheduleCommit(c) ==
    /\ sched[c].pc = "looked"
    /\ LET post_id == sched[c].post_id
           existing_job == SeenActiveJob(c)
       IN IF existing_job # 0
          THEN /\ jobs' = [jobs EXCEPT ![existing_job] =
                     [@ EXCEPT !.scheduled_at = sched[c].when,
                               !.priority = sched[c].priority,
                               !.source_hash = ContentHash(posts[post_id].content),
                               !.updated_at = now]]
               /\ posts' = posts
               /\ sched' = [sched EXCEPT ![c].pc = "done",
                                         ![c].action = "rescheduled"]
          ELSE /\ Len(jobs) < MaxJobs
               /\ jobs' = Append(jobs,
                     NewJob(job_type_map(posts[post_id].platform), post_id,
                            sched[c].when, sched[c].priority, NoStr,
                            ContentHash(posts[post_id].content)))
               /\ posts' = [posts EXCEPT ![post_id] =
                     [@ EXCEPT !.status = "scheduled",
                               !.scheduled_at = sched[c].when]]
               /\ sched' = [sched EXCEPT ![c].pc = "done",
                                         ![c].action = "scheduled"]
    /\ UNCHANGED <<now, request, response, worker, publisher>>

RaceLookup ==
    \E c \in Callers, p \in PostIds, w \in 1..MaxWhen, pr \in Priorities :
        ScheduleLookup(c, p, w, pr)

RaceCommit == \E c \in Callers : ScheduleCommit(c)

NextRace ==
    \/ RaceLookup
    \/ RaceCommit
    \/ StartWorker
    \/ MarkProcessing
    \/ Publish
    \/ Return
    \/ Sleep

SpecRace == InitSolo /\ [][NextRace]_vars

\* ------------------------------------------- the worker process is stopped
\* Ctrl+C or a kill between the commit of Processing and the commit of the
\* outcome: KeyboardInterrupt is no Exception, so `except Exception` of
\* process_queue lets it through and the process ends with the row as the
\* first commit of _process_job left it; the next worker is a new process
WorkerStops ==
    /\ wpc = "publish"
    /\ wpc' = "idle"
    /\ wq' = <<>>
    /\ wcur' = 0
    /\ wnow' = 0
    /\ dry_run' = FALSE
    /\ processed' = 0
    /\ wlog' = <<>>
    /\ wsnap' = <<>>
    /\ UNCHANGED <<posts, jobs, now, request, response, publisher, sched>>

NextStop ==
    \/ AnytimeSchedule
    \/ AnytimeFire
    \/ AnytimeCancel
    \/ Ack
    \/ StartWorker
    \/ MarkProcessing
    \/ Publish
    \/ Return
    \/ Sleep
    \/ WorkerStops

SpecStop == InitSolo /\ [][NextStop]_vars

\* ------------------------------------------------- the worker with --dry-run
\* the store after ingest("a", platform) for one of the three platforms
InitDry ==
    /\ \E pl \in Platform : posts = <<NewPost("a", pl, "approved")>>
    /\ jobs = <<>>
    /\ now = 0
    /\ request = NoRequest
    /\ response = Ok("none", 0, 0)
    /\ wpc = "idle"
    /\ wq = <<>>
    /\ wcur = 0
    /\ wnow = 0
    /\ dry_run = FALSE
    /\ processed = 0
    /\ wlog = <<>>
    /\ wsnap = <<>>
    /\ pubcalls = EmptyBag
    /\ pubok = EmptyBag
    /\ sched = [c \in Callers |-> NoCall]

\* `content-engine worker --dry-run`: JobWorker(dry_run=True).process_queue()
RunDryWorker ==
    /\ Quiet
    /\ ProcessQueue(TRUE)

NextDry ==
    \/ RetrySchedule
    \/ RetryFire
    \/ Ack
    \/ RunWorker
    \/ RunDryWorker
    \/ MarkProcessing
    \/ Publish
    \/ Return
    \/ Sleep

SpecDry == InitDry /\ [][NextDry]_vars

\* ------------------------------------- the legacy worker on the same store
\* select(Post).where(status == SCHEDULED).where(scheduled_at <= utcnow()):
\* a NULL scheduled_at never compares true
LegacyDue(post) ==
    /\ post.status = "scheduled"
    /\ post.scheduled_at # None
    /\ post.scheduled_at[1] <= now

\* str(e) of what post_to_linkedin raises: LinkedInAPIError for a response
\* that is not ok
LegacyErrors == {"LinkedIn API Error 401: Unauthorized"}

\* what process_scheduled_posts does with one due post: no oauth_tokens row
\* for the platform, post_to_linkedin returning or raising, or a platform
\* other than LinkedIn; `called` tells whether post_to_linkedin was called
LegacyOutcomes(post) ==
    {[ok |-> FALSE, value |-> "No OAuth token for " \o post.platform,
      called |-> FALSE]}
    \cup
    (IF post.platform = "linkedin"
     THEN {[ok |-> TRUE, value |-> e, called |-> TRUE] : e \in ExternalIds}
          \cup {[ok |-> FALSE, value |-> e, called |-> TRUE] :
                   e \in LegacyErrors}
     ELSE {[ok |-> FALSE,
            value |-> "Platform " \o post.platform \o " not supported",
            called |-> FALSE]})

\* the post row process_scheduled_posts commits for an outcome
LegacyPost(post, out) ==
    IF out.ok
    THEN [post EXCEPT !.status = "posted", !.posted_at = Some(now),
                      !.external_id = out.value]
    ELSE [post EXCEPT !.status = "failed", !.error_message = out.value]

\* python -m worker, a process of its own started at any moment: every due
\* Scheduled post is posted or failed; the job_queue table is neither read
\* nor written
process_scheduled_posts ==
    LET D == {p \in PostIds : LegacyDue(posts[p])} IN
    /\ \E out \in [D -> UNION {LegacyOutcomes(posts[p]) : p \in D}] :
          /\ \A p \in D : out[p] \in LegacyOutcomes(posts[p])
          /\ posts' = [p \in PostIds |->
                          IF p \in D THEN LegacyPost(posts[p], out[p])
                          ELSE posts[p]]
          /\ pubok' = pubok (+) SetToBag({p \in D : out[p].ok})
    /\ UNCHANGED <<jobs, now, request, response, worker, pubcalls, sched>>

NextLegacy ==
    \/ RetrySchedule
    \/ CallCancel
    \/ Ack
    \/ RunWorker
    \/ MarkProcessing
    \/ Publish
    \/ Return
    \/ Sleep
    \/ process_scheduled_posts

SpecLegacy == InitDry /\ [][NextLegacy]_vars

\* ================================================================ claims
Range(q) == {q[i] : i \in 1..Len(q)}

ActiveJobsOf(p) ==
    {j \in JobIds : jobs[j].post_id = p
                    /\ jobs[j].status \in {"pending", "processing"}}

\* a step that is the call of control-plane tool t
Calls(t) == request.tool = "none" /\ request'.tool = t

\* C1: in every reachable state every post_id has at most one JobRecord whose
\* status is Pending or Processing.
C1_AtMostOneActiveJobPerPost ==
    \A p \in PostIds : Cardinality(ActiveJobsOf(p)) <= 1

\* C2: a JobRecord's status changes only along Pending->Processing,
\* Processing->Completed, Processing->Pending, Processing->Failed and
\* Pending->Cancelled; Completed, Failed and Cancelled are never left, and no
\* record is removed.
StatusEdges ==
    {<<"pending", "processing">>, <<"processing", "completed">>,
     <<"processing", "pending">>, <<"processing", "failed">>,
     <<"pending", "cancelled">>}

C2_StatusTransitions ==
    [][/\ Len(jobs') >= Len(jobs)
       /\ \A j \in JobIds :
             \/ jobs'[j].status = jobs[j].status
             \/ <<jobs[j].status, jobs'[j].status>> \in StatusEdges]_vars

\* a job went through two retries to Failed while another was cancelled
C2_Witness ==
    \E j, k \in JobIds :
        /\ jobs[j].status = "failed" /\ jobs[j].attempts = 3
        /\ jobs[k].status = "cancelled"

\* C3: a Post that has a Pending or Processing job is Scheduled; when a job
\* becomes Completed its Post is Posted, and when a job becomes Failed its Post
\* is Failed.
C3_PostMirrorsJob ==
    /\ [](\A j \in JobIds :
             jobs[j].status \in {"pending", "processing"}
                 => posts[jobs[j].post_id].status = "scheduled")
    /\ [][\A j \in JobIds :
             /\ (jobs[j].status # "completed" /\ jobs'[j].status = "completed")
                   => posts'[jobs[j].post_id].status = "posted"
             /\ (jobs[j].status # "failed" /\ jobs'[j].status = "failed")
                   => posts'[jobs[j].post_id].status = "failed"]_vars

\* C4: a process_queue cycle dispatches a job if and only if, in the snapshot
\* taken at `now`, the job is Pending, its scheduled_at is null or <= now and
\* its next_retry_at is null or <= now.
DueAtSnapshot ==
    {j \in 1..Len(wsnap) :
        /\ wsnap[j].status = "pending"
        /\ (wsnap[j].scheduled_at = None \/ wsnap[j].scheduled_at[1] <= wnow)
        /\ (wsnap[j].next_retry_at = None \/ wsnap[j].next_retry_at[1] <= wnow)}

C4_DispatchedIffDue ==
    /\ wpc # "idle" => Range(wlog) \subseteq DueAtSnapshot
    /\ wpc = "done" => Range(wlog) = DueAtSnapshot

\* a finished cycle that dispatched one job and left alone a Pending job whose
\* retry time or scheduled time was still ahead
C4_Witness ==
    /\ wpc = "done"
    /\ wlog # <<>>
    /\ \E j \in 1..Len(wsnap) :
          /\ wsnap[j].status = "pending"
          /\ j \notin Range(wlog)
          /\ wsnap[j].next_retry_at # None
          /\ wsnap[j].next_retry_at[1] > wnow

\* the post of the last schedule call has exactly one job, Pending and never
\* dispatched, inserted for it while it was Approved or Draft
FirstScheduled(p, t) ==
    /\ p \in PostIds
    /\ posts[p].status = "scheduled"
    /\ {j \in JobIds : jobs[j].post_id = p} = {1}
    /\ Len(jobs) = 1
    /\ jobs[1].status = "pending"
    /\ jobs[1].attempts = 0
    /\ jobs[1].scheduled_at = Some(t)
    /\ t > now

\* C6: from an Approved post with no jobs, two successive Schedule calls with
\* two different future times leave exactly one JobRecord whose scheduled_at is
\* the second time; the second call returns action rescheduled.
C6_SecondScheduleReschedules ==
    [][\A p \in PostIds, t \in 1..MaxWhen :
          (/\ FirstScheduled(p, t)
           /\ Calls("schedule")
           /\ request'.post_id = p
           /\ request'.when # Some(t)
           /\ request'.when[1] > now)
          => /\ response'.success
             /\ response'.action = "rescheduled"
             /\ Len(jobs') = 1
             /\ jobs'[1].scheduled_at = request'.when]_vars

\* C7: after every successful Schedule(post_id, when, priority) the Post is
\* Scheduled with scheduled_at = when, and the post's active job has
\* scheduled_at = when, the given priority and the job_type of the platform;
\* the reschedule path inserts no JobRecord.
PlatformJobType ==
    [linkedin |-> "post_to_linkedin", twitter |-> "post_to_twitter",
     blog |-> "post_to_blog"]

C7_ScheduleEffect ==
    [][(Calls("schedule") /\ response'.success)
          => LET p == request'.post_id
                 j == response'.job_id
             IN /\ response'.action \in {"scheduled", "rescheduled"}
                /\ posts'[p].status = "scheduled"
                /\ posts'[p].scheduled_at = request'.when
                /\ j \in 1..Len(jobs')
                /\ jobs'[j].post_id = p
                /\ jobs'[j].status \in {"pending", "processing"}
                /\ jobs'[j].scheduled_at = request'.when
                /\ jobs'[j].priority = request'.priority
                /\ jobs'[j].job_type = PlatformJobType[posts[p].platform]
                /\ (response'.action = "rescheduled" => Len(jobs') = Len(jobs))
                /\ (response'.action = "scheduled" => Len(jobs') = Len(jobs) + 1)]_vars

\* C8: Schedule fails when the post does not exist or its status is not
\* Approved or Draft, and then no JobRecord is inserted or modified and the
\* Post is unchanged.
C8_ScheduleRejectsStatus ==
    [][(/\ Calls("schedule")
        /\ \/ request'.post_id \notin PostIds
           \/ posts[request'.post_id].status
                 \in {"scheduled", "posted", "failed", "rejected"})
          => /\ ~response'.success
             /\ response'.error # NoStr
             /\ jobs' = jobs
             /\ posts' = posts]_vars

\* a Schedule call on a Scheduled post with a Pending job was refused
C8_Witness ==
    /\ request.tool = "schedule"
    /\ ~response.success
    /\ request.post_id \in PostIds
    /\ posts[request.post_id].status = "scheduled"
    /\ request.when[1] > now
    /\ \E j \in JobIds : jobs[j].status = "pending"

\* C9: Schedule fails whenever `when` is not strictly later than the current
\* time, when = now included, and then no JobRecord is inserted or modified and
\* the Post is unchanged.
C9_ScheduleRejectsNow ==
    [][(Calls("schedule") /\ request'.when[1] <= now)
          => /\ ~response'.success
             /\ jobs' = jobs
             /\ posts' = posts]_vars

Position(q, x) == CHOOSE i \in 1..Len(q) : q[i] = x

ClaimedBefore(x, y) ==
    \/ x.priority > y.priority
    \/ /\ x.priority = y.priority
       /\ x.scheduled_at # None
       /\ y.scheduled_at # None
       /\ x.scheduled_at[1] < y.scheduled_at[1]

C5_DispatchOrder ==
    /\ Cardinality({j \in JobIds : jobs[j].status = "processing"}) <= 1
    /\ wpc # "idle" =>
          \A a, b \in DueAtSnapshot :
              (ClaimedBefore(wsnap[a], wsnap[b]) /\ b \in Range(wlog))
              => /\ a \in Range(wlog)
                 /\ Position(wlog, a) < Position(wlog, b)
                 /\ jobs[a].status \in {"completed", "pending", "failed"}
                 /\ jobs[a].attempts = wsnap[a].attempts + 1

\* a finished cycle dispatched two jobs of equal priority, the later-inserted
\* one first because its scheduled_at was the earlier
C5_Witness ==
    /\ wpc = "done"
    /\ Len(wlog) = 2
    /\ wlog[1] > wlog[2]
    /\ wsnap[wlog[1]].priority = wsnap[wlog[2]].priority
    /\ wsnap[wlog[1]].scheduled_at # None
    /\ wsnap[wlog[2]].scheduled_at # None
    /\ wsnap[wlog[1]].scheduled_at[1] < wsnap[wlog[2]].scheduled_at[1]

\* C11: Cancel(job_id) on a job whose status is Processing, Completed, Failed
\* or Cancelled fails with an error and leaves that job's status, every other
\* JobRecord and the owning Post (status and scheduled_at) unchanged.
C11_CancelRejectsNonPending ==
    [][(/\ Calls("cancel")
        /\ request'.job_id \in JobIds
        /\ jobs[request'.job_id].status
              \in {"processing", "completed", "failed", "cancelled"})
          => /\ ~response'.success
             /\ response'.error # NoStr
             /\ jobs' = jobs
             /\ posts' = posts]_vars

\* Cancel(job_id) was refused for the job the worker is publishing
C11_Witness ==
    /\ request.tool = "cancel"
    /\ ~response.success
    /\ wpc = "publish"
    /\ request.job_id = wcur
    /\ jobs[wcur].status = "processing"
    /\ posts[jobs[wcur].post_id].status = "scheduled"

\* C12: Cancel(job_id) on a Pending job sets exactly that job to Cancelled and
\* sets the owning Post to Approved with scheduled_at cleared; Cancel(post_id)
\* sets every Pending job of that post to Cancelled, reverts the Post the same
\* way, and changes no job of another post and no job in another status; when
\* the post has no Pending job it returns action none and mutates nothing.
CancelledRow(job, t) == [job EXCEPT !.status = "cancelled", !.updated_at = t]

PendingJobsOf(p) ==
    {j \in JobIds : jobs[j].post_id = p /\ jobs[j].status = "pending"}

C12_CancelEffect ==
    [][/\ (/\ Calls("cancel")
           /\ request'.job_id \in JobIds
           /\ jobs[request'.job_id].status = "pending")
          => LET j == request'.job_id
                 p == jobs[j].post_id
             IN /\ response'.success
                /\ response'.action = "cancelled"
                /\ jobs' = [jobs EXCEPT ![j] = CancelledRow(@, now)]
                /\ posts' = [posts EXCEPT ![p].status = "approved",
                                          ![p].scheduled_at = None]
       /\ (/\ Calls("cancel")
           /\ request'.job_id = 0
           /\ request'.post_id # 0)
          => LET p == request'.post_id IN
             IF PendingJobsOf(p) = {}
             THEN /\ response'.success
                  /\ response'.action = "none"
                  /\ jobs' = jobs
                  /\ posts' = posts
             ELSE /\ response'.success
                  /\ response'.action = "cancelled"
                  /\ Len(jobs') = Len(jobs)
                  /\ \A j \in JobIds :
                        jobs'[j] = IF j \in PendingJobsOf(p)
                                   THEN CancelledRow(jobs[j], now)
                                   ELSE jobs[j]
                  /\ posts' = [posts EXCEPT ![p].status = "approved",
                                            ![p].scheduled_at = None]]_vars

\* Cancel(post_id) cancelled the Pending job of a Scheduled post and left the
\* Pending job of the other post alone
C12_Witness ==
    /\ request.tool = "cancel"
    /\ request.job_id = 0
    /\ request.post_id \in PostIds
    /\ response.action = "cancelled"
    /\ posts[request.post_id].status = "approved"
    /\ posts[request.post_id].scheduled_at = None
    /\ \E j, k \in JobIds :
          /\ jobs[j].post_id = request.post_id
          /\ jobs[j].status = "cancelled"
          /\ jobs[j].scheduled_at # None
          /\ jobs[k].post_id # request.post_id
          /\ jobs[k].status = "pending"

\* C13: when a dispatched job's publish step raises (attempts already
\* incremented for this dispatch): if attempts >= max_attempts the job becomes
\* Failed and its Post becomes Failed with error_message "Max retries exceeded.
\* Last error: <error>"; otherwise the job returns to Pending with
\* next_retry_at = now + backoff[attempts-1] and the Post's status is left as
\* it was. In both cases the job's last_error holds the error.
BackoffTable == <<60, 300, 900, 3600>>

\* what the publisher of a job type raises
RaisedBy(job_type) ==
    CASE job_type = "post_to_linkedin" ->
             {"No LinkedIn OAuth token found. Run OAuth flow first."}
      [] job_type = "post_to_twitter" -> {"Twitter posting not yet implemented"}
      [] job_type = "post_to_blog" -> {"Blog posting not yet implemented"}

\* the step in which the publish of the current job ends with an exception
PublishRaises ==
    /\ wpc = "publish"
    /\ wpc' # "publish"
    /\ jobs'[wcur].status # "completed"

C13_FailureHandling ==
    [][PublishRaises
          => LET job == jobs[wcur]
                 p == job.post_id
             IN /\ job.status = "processing"
                /\ job.attempts >= 1
                /\ jobs'[wcur].last_error \in RaisedBy(job.job_type)
                /\ jobs'[wcur].attempts = job.attempts
                /\ IF job.attempts >= job.max_attempts
                   THEN /\ jobs'[wcur].status = "failed"
                        /\ posts'[p].status = "failed"
                        /\ posts'[p].error_message =
                              "Max retries exceeded. Last error: "
                                  \o jobs'[wcur].last_error
                   ELSE /\ jobs'[wcur].status = "pending"
                        /\ jobs'[wcur].next_retry_at =
                              Some(now + BackoffTable[job.attempts])
                        /\ posts'[p].status = posts[p].status
                        /\ posts'[p].error_message = posts[p].error_message]_vars

\* a job failed for good at its third attempt, after a first failure had sent
\* it back to Pending with a retry time
C13_Witness ==
    \E j \in JobIds :
        /\ jobs[j].status = "failed"
        /\ jobs[j].attempts = 3
        /\ jobs[j].next_retry_at # None
        /\ jobs[j].last_error = "No LinkedIn OAuth token found. Run OAuth flow first."
        /\ posts[jobs[j].post_id].status = "failed"
        /\ posts[jobs[j].post_id].error_message =
              "Max retries exceeded. Last error: No LinkedIn OAuth token found. Run OAuth flow first."

\* C14: in a process_queue cycle every job of the due snapshot is dispatched
\* exactly once whatever the outcome (success or exception) of the jobs
\* processed before it in the same cycle, and no exception raised while
\* publishing a job propagates out of process_queue.
NoRepeat(q) == \A a, b \in 1..Len(q) : a # b => q[a] # q[b]

C14_EveryDueJobDispatchedOnce ==
    /\ wpc # "crashed"
    /\ wpc \in {"loop", "publish", "done"}
          => /\ NoRepeat(wlog)
             /\ NoRepeat(wq)
             /\ Range(wlog) \cup Range(wq) = DueAtSnapshot
             /\ Range(wlog) \cap Range(wq) =
                   IF wpc = "publish" THEN {wcur} ELSE {}
             /\ \A j \in Range(wlog) \ {wcur} :
                   jobs[j].attempts = wsnap[j].attempts + 1
    /\ wpc = "done"
          => /\ wq = <<>>
             /\ Len(wlog) = Cardinality(DueAtSnapshot)

\* a finished cycle whose first job raised and went back to Pending and whose
\* second job was dispatched all the same
C14_Witness ==
    /\ wpc = "done"
    /\ Len(wlog) = 2
    /\ jobs[wlog[1]].status = "pending"
    /\ jobs[wlog[1]].last_error # NoStr
    /\ jobs[wlog[1]].attempts = wsnap[wlog[1]].attempts + 1
    /\ jobs[wlog[2]].attempts = wsnap[wlog[2]].attempts + 1
    /\ jobs[wlog[2]].status \in {"completed", "pending"}

\* C15: with a Publisher that fails at every attempt and a worker that keeps
\* running process_queue as time advances, a Pending job with max_attempts = m
\* is dispatched exactly m times, is never dispatched while its next_retry_at
\* is in the future, and eventually reaches Failed with its Post Failed and
\* last_error set on the job and echoed in the Post's error_message; for m = 3
\* the first failure sets next_retry_at = now+60s, the second now+300s, and the
\* third makes the job Failed.
Dispatched(j) == jobs[j].status = "pending" /\ jobs'[j].status = "processing"

FailedForGood(j) ==
    /\ j \in JobIds
    /\ jobs[j].status = "failed"
    /\ jobs[j].attempts = jobs[j].max_attempts
    /\ jobs[j].last_error # NoStr
    /\ posts[jobs[j].post_id].status = "failed"
    /\ posts[jobs[j].post_id].error_message =
          "Max retries exceeded. Last error: " \o jobs[j].last_error

C15_RetriesThenFailed ==
    /\ [][\A j \in JobIds :
             /\ jobs'[j].attempts =
                   IF Dispatched(j) THEN jobs[j].attempts + 1
                                    ELSE jobs[j].attempts
             /\ Dispatched(j)
                   => /\ jobs[j].attempts < jobs[j].max_attempts
                      /\ \/ jobs[j].next_retry_at = None
                         \/ jobs[j].next_retry_at[1] <= now
             /\ (jobs[j].status = "processing" /\ jobs'[j].status # "processing")
                   => /\ jobs[j].max_attempts = 3
                      /\ jobs[j].attempts = 1
                            => /\ jobs'[j].status = "pending"
                               /\ jobs'[j].next_retry_at = Some(now + 60)
                      /\ jobs[j].attempts = 2
                            => /\ jobs'[j].status = "pending"
                               /\ jobs'[j].next_retry_at = Some(now + 300)
                      /\ jobs[j].attempts = 3
                            => jobs'[j].status = "failed"
                      /\ jobs[j].attempts \in 1..3]_vars
    /\ \A j \in 1..MaxJobs :
          (j \in JobIds /\ jobs[j].status = "pending") ~> FailedForGood(j)

\* a job reached Failed at its third dispatch, 360 seconds or more after its
\* first failure
C15_Witness ==
    \E j \in JobIds :
        /\ FailedForGood(j)
        /\ jobs[j].attempts = 3
        /\ jobs[j].next_retry_at # None
        /\ jobs[j].started_at # None
        /\ jobs[j].started_at[1] >= 360

\* C16: the retry delay chosen after failed attempt number k (k >= 1,
\* k < max_attempts) is RETRY_BACKOFF[min(k-1, 3)] of the table
\* [60, 300, 900, 3600] seconds: it is non-decreasing in k and equals 3600 for
\* every k >= 4, and the index never falls outside the table.
C16_BackoffDelay ==
    [][(PublishRaises /\ jobs[wcur].attempts < jobs[wcur].max_attempts)
          => LET k == jobs[wcur].attempts
                 before == wsnap[wcur]
                 delay == jobs'[wcur].next_retry_at[1] - now
             IN /\ k >= 1
                /\ jobs'[wcur].next_retry_at # None
                /\ delay = BackoffTable[IF k - 1 < 3 THEN k ELSE 4]
                /\ delay \in {60, 300, 900, 3600}
                /\ k >= 4 => delay = 3600
                /\ before.next_retry_at # None
                      => delay >= before.next_retry_at[1]
                                     - before.started_at[1]]_vars

\* the fifth failed attempt of a job was given the last entry of the table, as
\* the fourth had been
C16_Witness ==
    \E j \in JobIds :
        /\ jobs[j].status = "pending"
        /\ jobs[j].attempts = 5
        /\ jobs[j].max_attempts > 5
        /\ jobs[j].next_retry_at = Some(jobs[j].started_at[1] + 3600)
        /\ jobs[j].started_at[1] = 60 + 300 + 900 + 3600

\* C17: end to end: Ingest(content, linkedin) yields a Post in Approved;
\* Schedule(post_id, now+1h) yields exactly one Pending JobRecord and Post
\* Scheduled; a process_queue run before that time leaves the job Pending and
\* untouched; a run at or after it with a succeeding Publisher makes the job
\* Completed (completed_at set, last_error null, attempts = 1) and the Post
\* Posted with external_id equal to the id the Publisher returned.
JobsOf(p) == {j \in JobIds : jobs[j].post_id = p}

C17_EndToEnd ==
    /\ [](wpc = "done"
             => \A j \in 1..Len(wsnap) :
                   (/\ wsnap[j].status = "pending"
                    /\ wsnap[j].scheduled_at # None
                    /\ wsnap[j].scheduled_at[1] > wnow)
                   => jobs[j] = wsnap[j])
    /\ [][/\ (/\ Calls("ingest")
              /\ request'.platform = "linkedin"
              /\ response'.action = "created")
             => /\ Len(posts') = Len(posts) + 1
                /\ response'.post_id = Len(posts')
                /\ posts'[Len(posts')].status = "approved"
                /\ posts'[Len(posts')].content = request'.content
                /\ posts'[Len(posts')].platform = "linkedin"
                /\ jobs' = jobs
          /\ (/\ Calls("schedule")
              /\ request'.post_id \in PostIds
              /\ posts[request'.post_id].status = "approved"
              /\ JobsOf(request'.post_id) = {}
              /\ request'.when[1] > now)
             => LET p == request'.post_id IN
                /\ response'.success
                /\ {j \in 1..Len(jobs') : jobs'[j].post_id = p} = {Len(jobs')}
                /\ Len(jobs') = Len(jobs) + 1
                /\ jobs'[Len(jobs')].status = "pending"
                /\ jobs'[Len(jobs')].scheduled_at = request'.when
                /\ jobs'[Len(jobs')].attempts = 0
                /\ posts'[p].status = "scheduled"
          /\ (wpc = "idle" /\ wpc' # "idle")
             => \A j \in JobIds :
                   /\ (jobs[j].scheduled_at # None
                       /\ jobs[j].scheduled_at[1] > now) => j \notin Range(wq')
                   /\ (/\ jobs[j].status = "pending"
                       /\ jobs[j].next_retry_at = None
                       /\ jobs[j].scheduled_at # None
                       /\ jobs[j].scheduled_at[1] <= now) => j \in Range(wq')
          /\ (wpc = "publish" /\ wpc' # "publish"
              /\ jobs'[wcur].last_error = NoStr)
             => LET p == jobs[wcur].post_id IN
                /\ jobs'[wcur].status = "completed"
                /\ jobs'[wcur].completed_at = Some(now)
                /\ jobs'[wcur].attempts = wsnap[wcur].attempts + 1
                /\ (wsnap[wcur].next_retry_at = None
                       => jobs'[wcur].attempts = 1)
                /\ posts'[p].status = "posted"
                /\ posts'[p].posted_at = Some(now)
                /\ posts'[p].external_id = "urn:li:share:1"]_vars

\* the cycle run at the scheduled time of an ingested and scheduled linkedin
\* post has published it at the first attempt
C17_Witness ==
    /\ wpc = "done"
    /\ Len(jobs) = 1
    /\ wsnap[1].status = "pending"
    /\ wsnap[1].attempts = 0
    /\ jobs[1].status = "completed"
    /\ jobs[1].attempts = 1
    /\ jobs[1].scheduled_at = Some(now)
    /\ now > 0
    /\ jobs[1].completed_at = Some(now)
    /\ jobs[1].last_error = NoStr
    /\ posts[1].status = "posted"
    /\ posts[1].platform = "linkedin"
    /\ posts[1].external_id = "urn:li:share:1"

\* C18: Sync(source_file, content) returns not_found when no Pending or
\* Processing job references source_file, and returns unchanged when the
\* active job's source_hash equals the hash of content; in both cases no field
\* of any JobRecord (updated_at included) and no field of any Post is
\* modified. Hence applying the same Sync(source_file, content) twice in a row
\* makes the second call return unchanged and change nothing.
ActiveJobsOfFile(f) ==
    {j \in JobIds : jobs[j].source_file = f
                    /\ jobs[j].status \in {"pending", "processing"}}

SyncNoOps ==
    Calls("sync")
       => LET A == ActiveJobsOfFile(request'.source_file) IN
          /\ A = {} => /\ response'.success
                       /\ response'.action = "not_found"
                       /\ jobs' = jobs
                       /\ posts' = posts
          /\ (\E j \in A : /\ \A k \in A : j <= k
                           /\ jobs[j].source_hash = ContentHash(request'.content))
                => /\ response'.success
                   /\ response'.action = "unchanged"
                   /\ jobs' = jobs
                   /\ posts' = posts
          /\ response'.action \in {"not_found", "unchanged"}
                => jobs' = jobs /\ posts' = posts

\* the statement as claimed: whatever the first call returned, the same call
\* made again returns unchanged
C18_SyncTwiceUnchanged ==
    /\ [][SyncNoOps]_vars
    /\ [](request.tool = "sync"
             => SyncAction(request.source_file, request.content) = "unchanged")

\* C18, amended: the second call returns unchanged when the first returned
\* unchanged or updated, and not_found when the first returned not_found.
C18_SyncTwiceNoOp ==
    /\ [][SyncNoOps]_vars
    /\ [](request.tool = "sync"
             => SyncAction(request.source_file, request.content) =
                   IF response.action = "not_found" THEN "not_found"
                                                    ELSE "unchanged")

\* Sync has just updated the content of a post whose Pending job references
\* the file: the same call made again finds the hash it wrote
C18_Witness ==
    /\ request.tool = "sync"
    /\ response.action = "updated"
    /\ \E j \in ActiveJobsOfFile(request.source_file) :
          /\ jobs[j].source_hash = ContentHash(request.content)
          /\ posts[jobs[j].post_id].content = request.content
          /\ jobs[j].status = "pending"

\* C19: Sync(source_file, content) with content whose hash differs from the
\* active job's source_hash sets the owning Post's content to content and the
\* job's source_hash to the new hash, and changes nothing else of the queue:
\* the job's status, attempts, scheduled_at, priority and next_retry_at are
\* unchanged and no JobRecord or Post is created.
C19_SyncUpdates ==
    [][\A j \in JobIds :
          (/\ Calls("sync")
           /\ j \in ActiveJobsOfFile(request'.source_file)
           /\ \A k \in ActiveJobsOfFile(request'.source_file) : j <= k
           /\ jobs[j].source_hash # ContentHash(request'.content))
          => LET p == jobs[j].post_id IN
             /\ response'.success
             /\ response'.action = "updated"
             /\ response'.job_id = j
             /\ posts' = [posts EXCEPT ![p].content = request'.content]
             /\ jobs' = [jobs EXCEPT
                           ![j].source_hash = ContentHash(request'.content),
                           ![j].updated_at = jobs'[j].updated_at]
             /\ jobs'[j].status = jobs[j].status
             /\ jobs'[j].attempts = jobs[j].attempts
             /\ jobs'[j].scheduled_at = jobs[j].scheduled_at
             /\ jobs'[j].priority = jobs[j].priority
             /\ jobs'[j].next_retry_at = jobs[j].next_retry_at
             /\ Len(jobs') = Len(jobs)
             /\ Len(posts') = Len(posts)]_vars

\* Sync changed the content of a post whose job had already failed once and
\* was waiting for its retry
C19_Witness ==
    /\ request.tool = "sync"
    /\ response.action = "updated"
    /\ response.job_id \in JobIds
    /\ jobs[response.job_id].status = "pending"
    /\ jobs[response.job_id].attempts >= 1
    /\ jobs[response.job_id].next_retry_at # None
    /\ jobs[response.job_id].source_hash = ContentHash(request.content)
    /\ posts[jobs[response.job_id].post_id].content = request.content

Unimplemented(j) == jobs[j].job_type \in {"post_to_twitter", "post_to_blog"}

C21_UnimplementedPlatforms ==
    /\ [](\A j \in JobIds :
             Unimplemented(j)
                => /\ jobs[j].status # "completed"
                   /\ jobs[j].completed_at = None
                   /\ jobs[j].status = "failed"
                         => /\ jobs[j].attempts = jobs[j].max_attempts
                            /\ posts[jobs[j].post_id].status = "failed")
    /\ [][\A j \in JobIds :
             Unimplemented(j)
                => /\ Dispatched(j) => jobs'[j].attempts = jobs[j].attempts + 1
                   /\ (jobs[j].status = "processing"
                       /\ jobs'[j].status # "processing")
                         => /\ jobs'[j].last_error \in RaisedBy(jobs[j].job_type)
                            /\ posts'[jobs[j].post_id].status # "posted"
                            /\ IF jobs[j].attempts < jobs[j].max_attempts
                               THEN /\ jobs'[j].status = "pending"
                                    /\ jobs'[j].next_retry_at =
                                          Some(now + BackoffTable[jobs[j].attempts])
                               ELSE /\ jobs'[j].status = "failed"
                                    /\ posts'[jobs[j].post_id].status = "failed"]_vars

\* a blog job used up its three attempts and failed with its post
C21_Witness ==
    \E j \in JobIds :
        /\ jobs[j].job_type = "post_to_blog"
        /\ jobs[j].status = "failed"
        /\ jobs[j].attempts = 3
        /\ jobs[j].completed_at = None
        /\ jobs[j].last_error = "Blog posting not yet implemented"
        /\ posts[jobs[j].post_id].status = "failed"
        /\ posts[jobs[j].post_id].external_id = NoStr

\* C22: when two Schedule calls for the same Approved post with no active job
\* run concurrently, each as the two steps 'look up active job' then 'insert
\* job and commit', an interleaving in which both lookups precede both inserts
\* reaches a state with two Pending JobRecords for one post_id.
BothLookedFirst ==
    /\ \A c \in Callers :
          /\ sched[c].pc = "done"
          /\ sched[c].action # "error"
          /\ sched[c].existing_job = 0
          /\ sched[c].post_id = 1
    /\ pubcalls = EmptyBag
    /\ wpc = "idle"

C22_ScheduleRace ==
    BothLookedFirst
       => /\ Len(jobs) = 2
          /\ \A j \in JobIds : jobs[j].post_id = 1 /\ jobs[j].status = "pending"
          /\ \A c \in Callers : sched[c].action = "scheduled"
          /\ posts[1].status = "scheduled"

\* both callers found no active job and both inserted one: the post has two
\* Pending jobs with the two scheduled times
C22_Witness ==
    /\ BothLookedFirst
    /\ Len(jobs) = 2
    /\ jobs[1].status = "pending"
    /\ jobs[2].status = "pending"
    /\ jobs[1].post_id = jobs[2].post_id
    /\ jobs[1].scheduled_at # jobs[2].scheduled_at

\* C23: when Cancel(job_id) interleaves with a running worker cycle, a job
\* that Cancel has set to Cancelled stays Cancelled: also when the Cancel
\* commits after the worker took its due snapshot and before the worker marks
\* that job Processing, the job is not moved to Processing or Completed and
\* the Publisher is not called for it.
C23_CancelledStaysCancelled ==
    [][\A j \in JobIds :
          jobs[j].status = "cancelled"
             => /\ jobs'[j].status = "cancelled"
                /\ CopiesIn(j, pubcalls') = CopiesIn(j, pubcalls)]_vars

\* C24: in every state reachable by sequential Ingest, Schedule, Fire, Cancel,
\* Sync and worker calls, every Pending or Processing job with a non-null
\* source_hash has source_hash equal to the hash of its Post's current
\* content; so Sync(source_file, content) returns unchanged exactly when
\* content equals the content currently stored on the Post.
C24_HashMatchesContent ==
    /\ [](\A j \in JobIds :
             (jobs[j].status \in {"pending", "processing"}
              /\ jobs[j].source_hash # NoStr)
                => jobs[j].source_hash = ContentHash(posts[jobs[j].post_id].content))
    /\ [][\A j \in JobIds :
             (/\ Calls("sync")
              /\ j \in ActiveJobsOfFile(request'.source_file)
              /\ \A k \in ActiveJobsOfFile(request'.source_file) : j <= k)
                => (response'.action = "unchanged"
                       <=> request'.content = posts[jobs[j].post_id].content)]_vars

\* Sync was called with the content an earlier Sync had stored on the post and
\* answered unchanged
C24_Witness ==
    /\ request.tool = "sync"
    /\ response.action = "unchanged"
    /\ request.content = "b"
    /\ response.job_id \in JobIds
    /\ jobs[response.job_id].status = "pending"
    /\ jobs[response.job_id].source_hash = ContentHash("b")
    /\ posts[response.post_id].content = "b"
    /\ jobs[response.job_id].updated_at < now

\* C25: for every Post, the Publisher is called successfully at most once over
\* any sequence of Ingest, Schedule, Fire, Cancel, Sync and process_queue
\* calls: once a Post is Posted, no later worker cycle publishes it again.
C25_PublishedAtMostOnce ==
    /\ [](\A p \in PostIds : CopiesIn(p, pubok) <= 1)
    /\ [][\A p \in PostIds :
             posts[p].status = "posted"
                => CopiesIn(p, pubok') = CopiesIn(p, pubok)]_vars

\* C26: once a Post's status is Posted it stays Posted under every later queue
\* operation: no Cancel (by job_id or by post_id) reverts it to Approved and no
\* failure of another job of the same post sets it to Failed.
C26_PostedStaysPosted ==
    [][\A p \in PostIds :
          posts[p].status = "posted" => posts'[p].status = "posted"]_vars

\* C27: in every reachable state each job satisfies 0 <= attempts <=
\* max_attempts, attempts equals the number of times the job has been
\* dispatched (marked Processing), and a job is Failed only when attempts =
\* max_attempts; no control-plane operation (Schedule reschedule, Sync, Ingest,
\* Cancel) changes attempts.
MarkedProcessing(j) ==
    jobs[j].status # "processing" /\ jobs'[j].status = "processing"

C27_AttemptsCountDispatches ==
    /\ [](\A j \in JobIds :
             /\ 0 <= jobs[j].attempts
             /\ jobs[j].attempts <= jobs[j].max_attempts
             /\ jobs[j].status = "failed"
                   => jobs[j].attempts = jobs[j].max_attempts
             /\ jobs[j].attempts =
                   CopiesIn(j, pubcalls)
                      + IF jobs[j].status = "processing" THEN 1 ELSE 0)
    /\ [][/\ \A j \in JobIds :
                jobs'[j].attempts =
                   IF MarkedProcessing(j) THEN jobs[j].attempts + 1
                                          ELSE jobs[j].attempts
          /\ \A j \in 1..Len(jobs') : j \notin JobIds => jobs'[j].attempts = 0
          /\ request' # request
                => \A j \in JobIds : jobs'[j].attempts = jobs[j].attempts]_vars

\* Schedule rescheduled a job that had been dispatched once and was waiting
\* for its retry: its attempts are still 1
C27_Witness ==
    /\ request.tool = "schedule"
    /\ response.action = "rescheduled"
    /\ response.job_id \in JobIds
    /\ jobs[response.job_id].status = "pending"
    /\ jobs[response.job_id].attempts = 1
    /\ jobs[response.job_id].next_retry_at # None
    /\ CopiesIn(response.job_id, pubcalls) = 1

\* a Processing job no running cycle holds: the worker that marked it stopped
Stranded(j) ==
    /\ jobs[j].status = "processing"
    /\ ~(wpc \in {"publish", "crashed"} /\ wcur = j)

\* a step in which cancel() is called
CancelCalled == request = NoRequest /\ request'.tool = "cancel"

\* what a step does to the row of a Processing job: the row is not in the
\* result of a due query, cancel(job_id) of it is refused and cancel(post_id)
\* leaves it alone, only the cycle that holds it changes its status, and a
\* stranded job stays stranded
RowIsStuck(j) ==
    /\ wpc = "idle" /\ wpc' # "idle" => j \notin Range(wq')
    /\ CancelCalled => /\ jobs'[j] = jobs[j]
                       /\ request'.job_id = j => ~response'.success
    /\ jobs'[j].status # "processing" => wpc = "publish" /\ wcur = j
    /\ Stranded(j) => Stranded(j)'

\* every step leaves the row of a Processing job as RowIsStuck says
ProcessingRowsAreStuck ==
    [][\A j \in JobIds : jobs[j].status = "processing" => RowIsStuck(j)]_vars

\* C28: a Processing job is never selected by the due query and cannot be
\* cancelled, and only the cycle that marked it Processing moves it on; so
\* when the worker stops after committing Processing and before recording the
\* outcome, the job stays Processing in every later state, however many
\* process_queue cycles run, and its post is never published by the queue.
C28_ProcessingIsStuck ==
    [][\A j \in JobIds :
          jobs[j].status = "processing" =>
             /\ RowIsStuck(j)
             /\ Stranded(j) =>
                   CopiesIn(jobs[j].post_id, pubok')
                      = CopiesIn(jobs[j].post_id, pubok)]_vars

\* a dry-run cycle sets the Post of the job it is processing to Posted with
\* the external_id made from that job's id, completes the job without
\* touching its attempts again, and calls no publisher
DryRunSteps ==
    [][dry_run /\ wpc = "publish" =>
          /\ pubcalls' = pubcalls
          /\ jobs'[wcur].status = "completed"
          /\ jobs'[wcur].attempts = wsnap[wcur].attempts + 1
          /\ posts'[jobs[wcur].post_id].status = "posted"
          /\ posts'[jobs[wcur].post_id].external_id
                = "dry-run-" \o ToString(wcur)]_vars

\* C29: with dry_run = true, process_queue never calls a Publisher, and every
\* due job, whatever its job_type, ends the cycle Completed with attempts
\* incremented by one and its Post Posted with external_id =
\* "dry-run-<job id>".
C29_DryRunCompletesEveryDueJob ==
    /\ [][dry_run => pubcalls' = pubcalls]_vars
    /\ [](dry_run /\ wpc = "done" =>
             \A j \in DueAtSnapshot :
                /\ jobs[j].status = "completed"
                /\ jobs[j].attempts = wsnap[j].attempts + 1
                /\ posts[jobs[j].post_id].status = "posted"
                /\ posts[jobs[j].post_id].external_id
                      = "dry-run-" \o ToString(j))

\* a step in which process_scheduled_posts published post p
LegacyPublished(p) ==
    /\ CopiesIn(p, pubok') > CopiesIn(p, pubok)
    /\ pubcalls' = pubcalls

\* a step in which the dispatch of a job published post p
QueuePublished(p) ==
    /\ CopiesIn(p, pubok') > CopiesIn(p, pubok)
    /\ pubcalls' # pubcalls

\* C30: with the legacy worker process_scheduled_posts and
\* JobWorker.process_queue on the same store, a post scheduled through
\* Schedule is published at most once: process_scheduled_posts does not
\* publish a post that has a Pending or Processing job, and a post that is
\* Posted or Failed is not published afterwards by the job's dispatch.
C30_LegacyAndQueuePublishOnce ==
    /\ [](\A p \in PostIds : CopiesIn(p, pubok) <= 1)
    /\ [][\A p \in PostIds :
             /\ LegacyPublished(p) => FirstActiveByPost(p) = 0
             /\ QueuePublished(p) => posts[p].status \notin {"posted", "failed"}
         ]_vars

====
